---- MODULE Spec2Model ----
(***************************************************************************)
(* Model of cmdlinearg.hh: arguments::options<64> with the default         *)
(* delimiters.  A C string is a sequence of one-character strings; the     *)
(* null pointer is Null.  A descriptor (argObj<T>) is a record holding its *)
(* spellings s and l, its default text d, its seen flag, the type it was   *)
(* instantiated for (kind) and the bound variable v it refers to.          *)
(***************************************************************************)
EXTENDS Integers, Sequences, FiniteSets, TLC

\* ------------------------------------------------------------------ bounds
MaxArgs == 3

\* --------------------------------------------------------- program constants
max_string_length == 64

Null == <<"nullptr">>
Delims == {"=", ":"}
Spaces == {" ", "\t", "\n", "\r", "\f"}

\* ------------------------------------------------------------ type conversion
DigitVal(c) ==
  CASE c = "0" -> 0 [] c = "1" -> 1 [] c = "2" -> 2 [] c = "3" -> 3
    [] c = "4" -> 4 [] c = "5" -> 5 [] c = "6" -> 6 [] c = "7" -> 7
    [] c = "8" -> 8 [] c = "9" -> 9
    [] c \in {"a", "A"} -> 10 [] c \in {"b", "B"} -> 11
    [] c \in {"c", "C"} -> 12 [] c \in {"d", "D"} -> 13
    [] c \in {"e", "E"} -> 14 [] c \in {"f", "F"} -> 15
    [] OTHER -> 99

RECURSIVE SkipSpaces(_, _)
SkipSpaces(s, i) ==
  IF i <= Len(s) /\ s[i] \in Spaces THEN SkipSpaces(s, i + 1) ELSE i

\* Accumulates the digits of the given base from position i on; the result
\* is the magnitude read and the position of the first character that is not
\* a digit.  (The texts converted here are a few characters long, far from
\* the range where strtol saturates or the assignment to int truncates.)
RECURSIVE ScanDigits(_, _, _, _)
ScanDigits(s, i, base, acc) ==
  IF i <= Len(s) /\ DigitVal(s[i]) < base
    THEN ScanDigits(s, i + 1, base, acc * base + DigitVal(s[i]))
    ELSE [acc |-> acc, i |-> i]

\* What strtol returns once the digits from position i on were scanned with
\* result sc: val is the number returned, end is r - s (0: no conversion).
strtolResult(neg, i, sc) ==
  IF sc.i = i
    THEN [val |-> 0, end |-> 0]
    ELSE [val |-> IF neg THEN 0 - sc.acc ELSE sc.acc, end |-> sc.i - 1]

\* With base 0, "0x" before a hexadecimal digit selects base 16.
strtolHex(s, i) ==
  /\ i + 2 <= Len(s)
  /\ s[i] = "0"
  /\ s[i + 1] \in {"x", "X"}
  /\ DigitVal(s[i + 2]) < 16

\* With base 0, a leading "0" selects base 8 and anything else base 10.
strtolBase(s, i) ==
  IF strtolHex(s, i) THEN 16
  ELSE IF i <= Len(s) /\ s[i] = "0" THEN 8 ELSE 10

\* std::strtol(s, &r, 0) from the base prefix on.
strtolPrefix(s, neg, i) ==
  strtolResult(neg, IF strtolHex(s, i) THEN i + 2 ELSE i,
               ScanDigits(s, IF strtolHex(s, i) THEN i + 2 ELSE i,
                          strtolBase(s, i), 0))

\* std::strtol(s, &r, 0) from the sign on.
strtolSign(s, i) ==
  strtolPrefix(s, i <= Len(s) /\ s[i] = "-",
               IF i <= Len(s) /\ s[i] \in {"-", "+"} THEN i + 1 ELSE i)

\* std::strtol(s, &r, 0): white space, sign, base prefix, digits.
strtol(s) == strtolSign(s, SkipSpaces(s, 1))

tolower(c) ==
  CASE c = "T" -> "t" [] c = "R" -> "r" [] c = "U" -> "u" [] c = "E" -> "e"
    [] c = "Y" -> "y" [] c = "S" -> "s" [] c = "N" -> "n" [] c = "O" -> "o"
    [] c = "F" -> "f" [] c = "A" -> "a" [] c = "L" -> "l" [] c = "B" -> "b"
    [] c = "D" -> "d" [] c = "I" -> "i"
    [] OTHER -> c

Lower(s) == [i \in 1..Len(s) |-> tolower(s[i])]

fromStringString(v, s) == [v |-> s, ok |-> TRUE]

\* Mutant: the end pointer is not compared with the start of the text.
fromStringIntOf_NoCheck(p) == [v |-> p.val, ok |-> TRUE]

\* fromString(int&, const char*) once strtol returned p: v is assigned the
\* number whether or not anything was converted.
fromStringIntOf(p) == [v |-> p.val, ok |-> p.end # 0]

fromStringInt(v, s) == fromStringIntOf(strtol(s))

\* fromString(bool&, const char*) on the lower-cased text s.
fromStringBoolOf(s) ==
  [v  |-> s \in { <<"1">>, <<"t", "r", "u", "e">>, <<"y", "e", "s">>,
                  <<"e", "n", "a", "b", "l", "e">> },
   ok |-> s \in { <<"1">>, <<"t", "r", "u", "e">>, <<"y", "e", "s">>,
                  <<"e", "n", "a", "b", "l", "e">>,
                  <<"0">>, <<"f", "a", "l", "s", "e">>, <<"n", "o">>,
                  <<"d", "i", "s", "a", "b", "l", "e">> }]

fromStringBool(v, _s) == fromStringBoolOf(Lower(_s))

\* Mutant: the element is put in front (push_front for push_back).
pushBack_Front(v, x) ==
  [v |-> IF x.ok THEN <<x.v>> \o v ELSE v, ok |-> x.ok]

\* Mutant: the container is assigned the element instead of gaining it.
pushBack_Assign(v, x) ==
  [v |-> IF x.ok THEN <<x.v>> ELSE v, ok |-> x.ok]

\* The container overload once the element was converted into the temporary
\* x: it is pushed back only when that succeeded.
pushBack(v, x) ==
  [v |-> IF x.ok THEN Append(v, x.v) ELSE v, ok |-> x.ok]

\* The container overload, instantiated for list<int>.
fromStringIntList(v, s) == pushBack(v, fromStringInt(0, s))

\* The container overload, instantiated for vector<string>.
fromStringStringVec(v, s) == pushBack(v, fromStringString(<<>>, s))

fromString(kind, v, s) ==
  CASE kind = "string"     -> fromStringString(v, s)
    [] kind = "int"        -> fromStringInt(v, s)
    [] kind = "bool"       -> fromStringBool(v, s)
    [] kind = "list_int"   -> fromStringIntList(v, s)
    [] kind = "vec_string" -> fromStringStringVec(v, s)

\* Mutant: the specialisation for bool is missing.
number_of_arguments_NoBool(kind) == 1

number_of_arguments(kind) == IF kind = "bool" THEN 0 ELSE 1

\* ------------------------------------------------------------------ matcher
\* delimHelper<char>::isDelim, the specialisation used when the options
\* object is declared without delimiters of its own.
isDelim(c) == c \in Delims

\* The comparison loop of isMe: the number of characters of z and y that
\* were compared and found equal, or -1 at the first difference.
RECURSIVE isMeLoop(_, _, _)
isMeLoop(z, y, i) ==
  IF i < Len(z) /\ i < Len(y) /\ i < max_string_length
    THEN IF z[i + 1] # y[i + 1] THEN 0 - 1 ELSE isMeLoop(z, y, i + 1)
    ELSE i

\* Mutant: in short mode a leading delimiter is not skipped.
isMeRest_KeepDelim(x, sl) ==
  IF sl # 0 THEN [me |-> TRUE, d |-> x]
  ELSE IF isDelim(x[1]) THEN [me |-> TRUE, d |-> Tail(x)]
  ELSE [me |-> FALSE, d |-> Null]

\* Mutant: in long mode what follows the spelling need not be a delimiter.
isMeRest_AnyLong(x, sl) ==
  [me |-> TRUE, d |-> IF isDelim(x[1]) THEN Tail(x) ELSE x]

\* The end of isMe: y matched and x, not empty, is what is left of z.
isMeRest(x, sl) ==
  IF sl # 0 THEN [me |-> TRUE, d |-> IF isDelim(x[1]) THEN Tail(x) ELSE x]
  ELSE IF isDelim(x[1]) THEN [me |-> TRUE, d |-> Tail(x)]
  ELSE [me |-> FALSE, d |-> Null]

\* isMe after its comparison loop, which ended with i.
isMeAfter(z, y, sl, i) ==
  IF i < 0 THEN [me |-> FALSE, d |-> Null]
  ELSE IF i < Len(y) THEN [me |-> FALSE, d |-> Null]
  ELSE IF i = Len(z) THEN [me |-> TRUE, d |-> Null]
  ELSE isMeRest(SubSeq(z, i + 1, Len(z)), sl)

\* isMe with y the spelling it compares z with.
isMeWith(z, y, sl) ==
  IF z = Null /\ y = Null THEN [me |-> TRUE, d |-> Null]
  ELSE IF z = Null \/ y = Null THEN [me |-> FALSE, d |-> Null]
  ELSE isMeAfter(z, y, sl, isMeLoop(z, y, 0))

\* argObjBase::isMe(d, z, sl) of descriptor a: me is the value returned and
\* d the embedded value it leaves in its first argument.
isMe(a, z, sl) == isMeWith(z, IF sl # 0 THEN a.s ELSE a.l, sl)

\* ----------------------------------------------------------------- registry
\* The static noDefault object is descriptor 0; the descriptors of the
\* forward_list are numbered from 1 in iteration order.
noDefault == 0

\* argObj<T>::setMe once fromString returned c: seen is set and v is what
\* fromString left in it.
setMeWith(opts, a, c) ==
  [options |-> [opts EXCEPT ![a].seen = TRUE, ![a].v = c.v], ok |-> c.ok]

\* argObj<T>::setMe (noDefault::setMe for descriptor 0) on the registry opts.
setMe(opts, a, s) ==
  IF a = noDefault
    THEN [options |-> opts, ok |-> FALSE]
    ELSE setMeWith(opts, a, fromString(opts[a].kind, opts[a].v, s))

numArgs(opts, a) ==
  IF a = noDefault THEN 0 ELSE number_of_arguments(opts[a].kind)

RECURSIVE findDefaultFrom(_, _)
findDefaultFrom(opts, i) ==
  IF i > Len(opts) THEN noDefault
  ELSE IF isMe(opts[i], Null, 0).me /\ isMe(opts[i], Null, 1).me THEN i
  ELSE findDefaultFrom(opts, i + 1)

findDefault(opts) == findDefaultFrom(opts, 1)

\* findArg(d, s, sl): a is the descriptor returned (0 for nullptr) and d the
\* embedded value left by the last isMe call.
RECURSIVE findArgFrom(_, _, _, _)
\* Mutant: the search goes on behind a match and the last one wins.
findArgAt_Last(opts, s, sl, i, m) ==
  IF m.me /\ findArgFrom(opts, s, sl, i + 1).a = 0
    THEN [a |-> i, d |-> m.d]
    ELSE findArgFrom(opts, s, sl, i + 1)

findArgAt(opts, s, sl, i, m) ==
  IF m.me THEN [a |-> i, d |-> m.d] ELSE findArgFrom(opts, s, sl, i + 1)

findArgFrom(opts, s, sl, i) ==
  IF i > Len(opts) THEN [a |-> 0, d |-> Null]
  ELSE findArgAt(opts, s, sl, i, isMe(opts[i], s, sl))

findArg(opts, s, sl) == findArgFrom(opts, s, sl, 1)

\* setDefaults on the registry opts, from descriptor i on.
RECURSIVE setDefaultsFrom(_, _)
setDefaultsFrom(opts, i) ==
  IF i > Len(opts) THEN opts
  ELSE IF opts[i].seen = FALSE /\ opts[i].d # Null
    THEN setDefaultsFrom(setMe(opts, i, opts[i].d).options, i + 1)
  ELSE setDefaultsFrom(opts, i + 1)

setDefaults(opts) == setDefaultsFrom(opts, 1)

\* ------------------------------------------------------- consumption engine
allgood == [state |-> "ok", op |-> Null, val |-> Null]

errorState(state, op, val) == [state |-> state, op |-> op, val |-> val]

\* What front() and pop_front() of an empty forward_list can do: the read
\* faults, or it yields whatever text the stray pointer leads to and leaves
\* the list empty.
StrayTexts == {<<"x">>, <<"4">>}

EmptyFront ==
  {[fault |-> TRUE, val |-> Null]}
    \cup {[fault |-> FALSE, val |-> t] : t \in StrayTexts}

\* The result of one call of proc: the registry and the list as the call
\* leaves them, the errorState returned, the setMe calls it made, in order
\* (descriptor and text), whether the call read the front of an empty list
\* (stray) and whether it faulted doing so.
procResult(opts, l, r, calls) ==
  [options |-> opts, l |-> l, r |-> r, calls |-> calls,
   stray |-> FALSE, fault |-> FALSE]

\* Mutant: an if for the while: only the next token is fed.
procRestNext_Once(opts, l, defOp, calls, sm) ==
  IF sm.ok = FALSE
    THEN procResult(sm.options, Tail(l),
                    errorState("invalid", Null, Head(l)), calls)
    ELSE procResult(sm.options, Tail(l), allgood, calls)

\* The loop of proc taken for the operand "-": procRest is its test,
\* procRestNext the rest of an iteration, once setMe returned sm for the
\* front of l.
RECURSIVE procRest(_, _, _, _)
procRestNext(opts, l, defOp, calls, sm) ==
  IF sm.ok = FALSE
    THEN procResult(sm.options, Tail(l),
                    errorState("invalid", Null, Head(l)), calls)
    ELSE procRest(sm.options, Tail(l), defOp, calls)

procRest(opts, l, defOp, calls) ==
  IF l = <<>> THEN procResult(opts, l, allgood, calls)
  ELSE procRestNext(opts, l, defOp,
                    Append(calls, [a |-> defOp, s |-> Head(l)]),
                    setMe(opts, defOp, Head(l)))

\* The return of proc after a->setMe(val) returned sm: l is the list as the
\* call leaves it.
procSet(l, op, a, val, sm) ==
  procResult(sm.options, l,
             IF sm.ok THEN allgood ELSE errorState("invalid", op, val),
             <<[a |-> a, s |-> val]>>)

\* The branch of proc for a matched descriptor a, after the embedded value
\* was pushed back: l is the list at that point.
procMatched(opts, l, op, a, ef) ==
  IF numArgs(opts, a) = 0
    THEN procSet(l, op, a, <<"t", "r", "u", "e">>,
                 setMe(opts, a, <<"t", "r", "u", "e">>))
  ELSE IF l = <<>>
    THEN IF ef.fault
           THEN [procResult(opts, l, allgood, <<>>)
                   EXCEPT !.stray = TRUE, !.fault = TRUE]
           ELSE [procSet(l, op, a, ef.val, setMe(opts, a, ef.val))
                   EXCEPT !.stray = TRUE]
  ELSE procSet(Tail(l), op, a, Head(l), setMe(opts, a, Head(l)))

\* Mutant: an option that is not found is skipped.
procUnknown_Skip(opts, l, op) == procResult(opts, l, allgood, <<>>)

\* The return of proc when findArg found no descriptor for op.
procUnknown(opts, l, op) ==
  procResult(opts, l, errorState("unknown", op, Null), <<>>)

\* Mutant: the embedded value is not pushed back.
procFound_Drop(opts, l, op, f, ef) ==
  IF f.a = 0
    THEN procUnknown(opts, l, op)
    ELSE procMatched(opts, l, op, f.a, ef)

\* Mutant: the embedded value is pushed back twice.
procFound_Twice(opts, l, op, f, ef) ==
  IF f.a = 0
    THEN procUnknown(opts, l, op)
    ELSE procMatched(opts, IF f.d # Null THEN <<f.d, f.d>> \o l ELSE l,
                     op, f.a, ef)

\* proc after findArg returned f: l is the list behind op.
procFound(opts, l, op, f, ef) ==
  IF f.a = 0
    THEN procUnknown(opts, l, op)
    ELSE procMatched(opts, IF f.d # Null THEN <<f.d>> \o l ELSE l,
                     op, f.a, ef)

\* Mutant: the token is fed to the noDefault object whatever defOp is.
procPlain_NoDefault(opts, l, defOp, op) ==
  procSet(l, <<"d", "e", "f", "a", "u", "l", "t", " ", "l", "i", "s", "t">>,
          defOp, op, setMe(opts, noDefault, op))

\* The last branch of proc: op does not begin with '-'.
procPlain(opts, l, defOp, op) ==
  procSet(l, <<"d", "e", "f", "a", "u", "l", "t", " ", "l", "i", "s", "t">>,
          defOp, op, setMe(opts, defOp, op))

\* proc on the operand op popped from the list, l being what is left of it.
procOn(opts, l, op, defOp, ef) ==
  IF op = Null \/ op = <<>> THEN procResult(opts, l, allgood, <<>>)
  ELSE IF op[1] = "-"
    THEN IF Len(op) = 1
           THEN procRest(opts, l, defOp, <<>>)
           ELSE procFound(opts, l, op,
                          findArg(opts,
                                  SubSeq(op, IF op[2] = "-" THEN 3 ELSE 2,
                                         Len(op)),
                                  IF op[2] = "-" THEN 0 ELSE 1),
                          ef)
  ELSE procPlain(opts, l, defOp, op)

\* proc(l, defOp) on the registry opts; l is not empty.  ef is what reading
\* the front of an empty list does, should the call come to that.
proc(opts, l, defOp, ef) == procOn(opts, Tail(l), Head(l), defOp, ef)

\* populate(c, argv) as a function of the registry and of the tokens
\* argv[1..c-1]: r0 is the indeterminate initial value of the local r.
RECURSIVE populateLoop(_, _, _, _, _)
populateNext(defOp, ef, p) ==
  IF p.fault \/ p.r.state # "ok"
    THEN [options |-> p.options, l |-> p.l, r |-> p.r, fault |-> p.fault]
    ELSE populateLoop(p.options, p.l, defOp, p.r, ef)

populateLoop(opts, l, defOp, r, ef) ==
  IF l = <<>> THEN [options |-> opts, l |-> l, r |-> r, fault |-> FALSE]
  ELSE populateNext(defOp, ef, proc(opts, l, defOp, ef))

populateEnd(e) ==
  [options |-> IF ~e.fault /\ e.r.state = "ok"
                 THEN setDefaults(e.options) ELSE e.options,
   l |-> e.l, r |-> e.r, fault |-> e.fault]

populate(opts, av, r0, ef) ==
  populateEnd(populateLoop(opts, av, findDefault(opts), r0, ef))

\* ------------------------------------------------------------------- inputs
\* One call of option(): the type of the variable, the spellings, the
\* default text and the value the caller's variable holds at that point.
optionCall(kind, s, l, d, v) ==
  [kind |-> kind, s |-> s, l |-> l, d |-> d, v |-> v]

\* The four calls of the usage example of the file header.
ExampleMain ==
  << optionCall("string", <<"o">>, <<"o", "u", "t", "f", "i", "l", "e">>,
                <<"o", "u", "t", ".", "d", "a", "t">>, <<>>),
     optionCall("int", <<"c">>, <<"c", "o", "u", "n", "t">>,
                <<"1", "3">>, 7),
     optionCall("list_int", <<"w">>, <<"w">>, Null, <<>>),
     optionCall("vec_string", Null, Null, Null, <<>>) >>

\* A flag and a counter, no positional list.
FlagMain ==
  << optionCall("bool", <<"h">>, <<"h", "e", "l", "p">>, Null, FALSE),
     optionCall("int", <<"c">>, <<"c", "o", "u", "n", "t">>,
                <<"1", "3">>, 7) >>

\* A repeatable option with a default, and a positional list of integers.
ListMain ==
  << optionCall("list_int", <<"w">>, <<"w">>, <<"9">>, <<>>),
     optionCall("list_int", Null, Null, Null, <<>>) >>

\* Two options sharing the short spelling c.
ClashMain ==
  << optionCall("int", <<"c">>, <<"c", "o", "u", "n", "t">>,
                <<"1", "3">>, 7),
     optionCall("string", <<"c">>, <<"c", "o", "l", "s">>, Null, <<>>) >>

\* A flag and a counter registered with default texts their converters
\* reject, bound to variables that hold true and 7.
BadDefaultMain ==
  << optionCall("bool", <<"h">>, <<"h", "e", "l", "p">>,
                <<"m", "a", "y", "b", "e">>, TRUE),
     optionCall("int", <<"c">>, <<"c", "o", "u", "n", "t">>,
                <<"a", "b", "c">>, 7) >>

\* A counter whose short spelling is one character longer than isMe compares.
OverlongSpelling == [k \in 1..(max_string_length + 1) |-> "z"]

OverlongMain ==
  << optionCall("int", OverlongSpelling, <<"c", "o", "u", "n", "t">>,
                Null, 7) >>

Mains ==
  {ExampleMain, FlagMain, ListMain, ClashMain, BadDefaultMain, OverlongMain,
   <<>>}

\* The command line the file header gives for the usage example.
ExampleArgv ==
  << <<"-", "-", "o", "u", "t", "f", "i", "l", "e">>, <<"f", "o", "o">>,
     <<"-", "c">>, <<"4">>,
     <<"-", "w">>, <<"4">>, <<"-", "w", "5">>, <<"-", "w", "=", "4">>,
     <<"-", "w", ":", "1">>, <<"-", "-", "w">>, <<"6">>,
     <<"b", "a", "r", "1">>, <<"b", "a", "r", "2">>, <<"b", "a", "r", "3">> >>

Tokens ==
  { <<"-", "c">>, <<"-", "-", "c", "o", "u", "n", "t", "=", "4">>,
    <<"4">>, <<"a", "b", "c">>, <<"-">>, <<>>,
    <<"-", "h">>, <<"-", "h", "x">>, <<"-", "-", "b", "o", "g", "u", "s">>,
    <<"-", "w">>, <<"-", "w", "5">> }

Argvs ==
  UNION {[1..n -> Tokens] : n \in 0..MaxArgs} \cup {ExampleArgv}

\* The values the uninitialised local r of populate may hold.
Wild == <<"wild">>

Indeterminate ==
  {errorState(st, Wild, Wild) : st \in {"ok", "invalid", "unknown"}}

\* -------------------------------------------------------------------- state
VARIABLES
  main,     \* the option() calls the caller makes, in order
  options,  \* the forward_list of descriptors, in iteration order
  argv,     \* the tokens argv[1..c-1] populate was called with
  args,     \* the local list args of populate
  defOp,    \* the local defOp of populate
  r,        \* the local r of populate, and the value it returns
  pc,       \* where the caller and populate are
  trace     \* the calls of proc made so far: operand, setMe calls, result

vars == <<main, options, argv, args, defOp, r, pc, trace>>

Init ==
  /\ main \in Mains
  /\ options = <<>>
  /\ argv = <<>>
  /\ args = <<>>
  /\ defOp = noDefault
  /\ r = allgood
  /\ pc = "main"
  /\ trace = <<>>

\* option(variable, s_short, s_long, s_help, s_default): push_front of a new
\* argObj<T>, whose constructor clears seen.
argObj(c) ==
  [s |-> c.s, l |-> c.l, d |-> c.d, seen |-> FALSE, kind |-> c.kind,
   v |-> c.v]

option ==
  /\ pc = "main"
  /\ Len(options) < Len(main)
  /\ options' = <<argObj(main[Len(options) + 1])>> \o options
  /\ UNCHANGED <<main, argv, args, defOp, r, pc, trace>>

\* populate up to its second loop: args is seeded from argv, defOp found,
\* r left uninitialised.
populateEnter ==
  /\ pc = "main"
  /\ Len(options) = Len(main)
  /\ \E av \in Argvs :
       /\ argv' = av
       /\ args' = av
  /\ defOp' = findDefault(options)
  /\ r' \in Indeterminate
  /\ pc' = "loop"
  /\ UNCHANGED <<main, options, trace>>

\* The state a call of proc with result p leaves, and where the loop of
\* populate goes from there.
procDone(p) ==
  /\ options' = p.options
  /\ args' = p.l
  /\ r' = IF p.fault THEN r ELSE p.r
  /\ pc' = IF p.fault THEN "fault"
           ELSE IF p.r.state = "ok" THEN "loop" ELSE "exit"
  /\ trace' = Append(trace, [op |-> Head(args), calls |-> p.calls,
                             r |-> p.r, stray |-> p.stray,
                             fault |-> p.fault])

\* One iteration of the second loop of populate: r = proc(args, defOp).
procStep ==
  /\ pc = "loop"
  /\ args # <<>>
  /\ \E ef \in EmptyFront : procDone(proc(options, args, defOp, ef))
  /\ UNCHANGED <<main, argv, defOp>>

\* The end of populate: the loop is left, setDefaults runs if r.state is ok,
\* r is returned.
populateReturn ==
  /\ \/ pc = "exit"
     \/ pc = "loop" /\ args = <<>>
  /\ options' = IF r.state = "ok" THEN setDefaults(options) ELSE options
  /\ pc' = "done"
  /\ UNCHANGED <<main, argv, args, defOp, r, trace>>

Next ==
  \/ option
  \/ populateEnter
  \/ procStep
  \/ populateReturn

Spec == Init /\ [][Next]_vars

\* ------------------------------------------------------------ claim helpers
\* The registry once every option() call of main has been made.
Registered(m) == [i \in 1..Len(m) |-> argObj(m[Len(m) + 1 - i])]

RegistrationDone == pc = "main" /\ Len(options) = Len(main)

IsScalar(a) == a.kind \in {"string", "int"}

IsContainer(a) == a.kind \in {"list_int", "vec_string"}

ValueTexts ==
  { <<"4">>, <<"0", "x", "1", "f">>, <<"a", "b", "c">>, <<"-", "5">>,
    <<"f", "=", "o">>, <<>>, <<"=", "4">>, <<":">> }

\* The five ways of writing option a with the value text value.
LongEqForm(a, value)   == << <<"-", "-">> \o a.l \o <<"=">> \o value >>
LongSepForm(a, value)  == << <<"-", "-">> \o a.l, value >>
ShortCatForm(a, value) == << <<"-">> \o a.s \o value >>
ShortEqForm(a, value)  == << <<"-">> \o a.s \o <<"=">> \o value >>
ShortSepForm(a, value) == << <<"-">> \o a.s, value >>

FiveForms(a, value) ==
  { LongEqForm(a, value), LongSepForm(a, value), ShortCatForm(a, value),
    ShortEqForm(a, value), ShortSepForm(a, value) }

\* findArg resolves every option token of the five forms to descriptor i.
ResolvesTo(opts, i, value) ==
  /\ opts[i].s # <<>>
  /\ opts[i].s[1] # "-"
  /\ findArg(opts, opts[i].l \o <<"=">> \o value, 0).a = i
  /\ findArg(opts, opts[i].l, 0).a = i
  /\ findArg(opts, opts[i].s \o value, 1).a = i
  /\ findArg(opts, opts[i].s \o <<"=">> \o value, 1).a = i
  /\ findArg(opts, opts[i].s, 1).a = i

\* ------------------------------------------------------------------- claims
\* C1 (as stated): for every scalar option with both spellings and every
\* value text, populate on each of the five forms returns the same error
\* state and leaves the same registry and bound variables.
C1_AsStated ==
  RegistrationDone =>
    \A i \in 1..Len(options) :
      (IsScalar(options[i]) /\ options[i].s # Null /\ options[i].l # Null)
        => \A value \in ValueTexts : \A ef \in EmptyFront :
             \A f, g \in FiveForms(options[i], value) :
               LET pf == populate(options, f, allgood, ef)
                   pg == populate(options, g, allgood, ef)
               IN /\ pf.fault = pg.fault
                  /\ pf.r = pg.r
                  /\ pf.options = pg.options

\* C1 (amended): for every scalar option with both spellings to which
\* findArg resolves the option token of each of the five forms, and every
\* non-empty value text that does not begin with a delimiter, populate on
\* each of the five forms returns the same kind of error state with the
\* same offending value, and leaves the same registry and bound variables.
C1_FiveFormsAgree ==
  RegistrationDone =>
    \A i \in 1..Len(options) :
      (IsScalar(options[i]) /\ options[i].s # Null /\ options[i].l # Null)
        => \A value \in ValueTexts : \A ef \in EmptyFront :
             (value # <<>> /\ ~isDelim(value[1])
                /\ ResolvesTo(options, i, value))
               => \A f, g \in FiveForms(options[i], value) :
                    LET pf == populate(options, f, allgood, ef)
                        pg == populate(options, g, allgood, ef)
                    IN /\ ~pf.fault /\ ~pg.fault
                       /\ pf.r.state = pg.r.state
                       /\ pf.r.val = pg.r.val
                       /\ pf.options = pg.options

\* A run of the example on "-c 4" ended with count = 4, which is also what
\* populate leaves for "--count=4".
C1_Witness ==
  /\ pc = "done"
  /\ main = ExampleMain
  /\ argv = ShortSepForm(Registered(main)[3], <<"4">>)
  /\ options[3].v = 4
  /\ options =
       populate(Registered(main), LongEqForm(Registered(main)[3], <<"4">>),
                allgood, [fault |-> TRUE, val |-> Null]).options

\* The descriptor of the registry with long spelling l (Null: the positional).
ByLong(opts, l) == CHOOSE i \in 1..Len(opts) : opts[i].l = l

\* The descriptor an option token names (0: none, or not an option token).
Named(opts, op) ==
  IF Len(op) >= 2 /\ op[1] = "-"
    THEN IF op[2] = "-" THEN findArg(opts, SubSeq(op, 3, Len(op)), 0).a
         ELSE findArg(opts, SubSeq(op, 2, Len(op)), 1).a
    ELSE 0

\* The token is "-s" or "--l" for descriptor a, with nothing after it.
Bare(a, op) ==
  \/ a.s # Null /\ op = <<"-">> \o a.s
  \/ a.l # Null /\ op = <<"-", "-">> \o a.l

IsPrefix(p, t) == Len(p) <= Len(t) /\ SubSeq(t, 1, Len(p)) = p

IsSuffix(p, t) ==
  Len(p) <= Len(t) /\ SubSeq(t, Len(t) - Len(p) + 1, Len(t)) = p

Last(q) == q[Len(q)]

AtProc == pc = "loop" /\ args # <<>>

\* C2: the usage example of the file header: populate returns ok and leaves
\* outfile = "foo", count = 4, ws = [4,5,4,1,6], infile = [bar1,bar2,bar3].
C2_Example ==
  (pc = "done" /\ main = ExampleMain /\ argv = ExampleArgv)
    => /\ r.state = "ok"
       /\ options[ByLong(options, <<"o", "u", "t", "f", "i", "l", "e">>)].v
            = <<"f", "o", "o">>
       /\ options[ByLong(options, <<"c", "o", "u", "n", "t">>)].v = 4
       /\ options[ByLong(options, <<"w">>)].v = <<4, 5, 4, 1, 6>>
       /\ options[ByLong(options, Null)].v
            = << <<"b", "a", "r", "1">>, <<"b", "a", "r", "2">>,
                 <<"b", "a", "r", "3">> >>

C2_Witness ==
  /\ pc = "done"
  /\ main = ExampleMain
  /\ argv = ExampleArgv
  /\ Len(trace) = 10
  /\ args = <<>>

\* C3 (as stated): a token naming a boolean option sets its variable to
\* true, and the token that followed it is the front of the queue when the
\* step returns.
C3_AsStated ==
  [][ \A a \in 1..Len(options) :
        (AtProc /\ Named(options, Head(args)) = a
           /\ options[a].kind = "bool")
          => /\ options'[a].v = TRUE
             /\ Len(args) > 1 => (args' # <<>> /\ Head(args') = args[2]) ]_vars

\* C3 (amended): a token naming a boolean option sets its variable to true
\* by presence alone and the step consumes no other token: the tokens that
\* followed it are all still in the queue, in order, when the step returns,
\* at the front when the token is the bare spelling and behind the one
\* embedded fragment pushed back otherwise.
C3_FlagConsumesNothing ==
  [][ \A a \in 1..Len(options) :
        (AtProc /\ Named(options, Head(args)) = a
           /\ options[a].kind = "bool")
          => /\ options'[a].v = TRUE
             /\ options'[a].seen = TRUE
             /\ r' = allgood
             /\ pc' = "loop"
             /\ IsSuffix(Tail(args), args')
             /\ Len(args') <= Len(args)
             /\ Bare(options[a], Head(args)) => args' = Tail(args)
             /\ ~Bare(options[a], Head(args))
                  => /\ Len(args') = Len(args)
                     /\ IsSuffix(Head(args'), Head(args))
                     /\ Len(Head(args')) < Len(Head(args)) ]_vars

\* "-hx 4" was processed up to the flag: help is true, and x and 4 wait.
C3_Witness ==
  /\ pc = "loop"
  /\ main = FlagMain
  /\ Len(trace) = 1
  /\ trace[1].op = <<"-", "h", "x">>
  /\ options[ByLong(options, <<"h", "e", "l", "p">>)].v = TRUE
  /\ args = << <<"x">>, <<"4">> >>

\* The texts descriptor i was set from by the calls of proc, in order.
RECURSIVE CallsOf(_, _)
CallsOf(cs, i) ==
  IF cs = <<>> THEN <<>>
  ELSE (IF Head(cs).a = i THEN <<Head(cs).s>> ELSE <<>>)
         \o CallsOf(Tail(cs), i)

RECURSIVE Occurrences(_, _)
Occurrences(tr, i) ==
  IF tr = <<>> THEN <<>>
  ELSE CallsOf(Head(tr).calls, i) \o Occurrences(Tail(tr), i)

\* The element a text stands for in a container of the given kind.
Element(kind, s) == IF kind = "list_int" THEN strtol(s).val ELSE s

Elements(kind, ss) == [k \in 1..Len(ss) |-> Element(kind, ss[k])]

\* The variable descriptor i was registered with.
Before(i) == Registered(main)[i].v

\* C4 (as stated): when populate returns ok, a container option that occurred
\* N times has gained exactly the N elements, in order of occurrence.
C4_AsStated ==
  (pc = "done" /\ r.state = "ok")
    => \A i \in 1..Len(options) :
         IsContainer(options[i])
           => options[i].v
                = Before(i) \o Elements(options[i].kind,
                                        Occurrences(trace, i))

\* C4 (amended): when populate returns ok, a container option that occurred
\* N times has gained exactly the N elements, in order of occurrence, and
\* after them, when N = 0 and it has a default text, the element of that
\* default; and no step of the parse removes or changes an element the
\* container already has.
C4_ContainerGains ==
  /\ [](\A i \in 1..Len(options) :
          (pc = "done" /\ r.state = "ok" /\ IsContainer(options[i]))
            => options[i].v
                 = Before(i)
                     \o Elements(options[i].kind, Occurrences(trace, i))
                     \o (IF Occurrences(trace, i) = <<>>
                            /\ options[i].d # Null
                            /\ fromString(options[i].kind, <<>>,
                                          options[i].d).ok
                           THEN <<Element(options[i].kind, options[i].d)>>
                           ELSE <<>>))
  /\ [][ \A i \in 1..Len(options) :
           (pc # "main" /\ IsContainer(options[i]))
             => IsPrefix(options[i].v, options'[i].v) ]_vars

\* "-w 4 -w5": two occurrences, two elements, in that order.
C4_Witness ==
  /\ pc = "done"
  /\ r.state = "ok"
  /\ main = ExampleMain
  /\ argv = << <<"-", "w">>, <<"4">>, <<"-", "w", "5">> >>
  /\ options[ByLong(options, <<"w">>)].v = <<4, 5>>

\* The descriptors registered with both spellings null.
Positionals(opts) ==
  {i \in 1..Len(opts) : opts[i].s = Null /\ opts[i].l = Null}

DecimalDigits == {"0", "1", "2", "3", "4", "5", "6", "7", "8", "9"}

\* The text starts, after white space and at most one sign, with a digit.
Numeric(t) ==
  \E n \in 0..(Len(t) - 1) :
    /\ t[n + 1] \in DecimalDigits
    /\ \/ \A j \in 1..n : t[j] \in Spaces
       \/ /\ n >= 1
          /\ t[n] \in {"+", "-"}
          /\ \A j \in 1..(n - 1) : t[j] \in Spaces

\* The positional consumer turns the text down.
Refused(opts, d, t) ==
  \/ d = noDefault
  \/ d # noDefault /\ opts[d].kind \in {"int", "list_int"} /\ ~Numeric(t)
  \/ d # noDefault /\ opts[d].kind = "bool"

DefaultList ==
  <<"d", "e", "f", "a", "u", "l", "t", " ", "l", "i", "s", "t">>

\* Every descriptor but d is as it was.
OthersUnchanged(d) ==
  /\ Len(options') = Len(options)
  /\ \A i \in 1..Len(options) : i # d => options'[i] = options[i]

\* C5: a non-empty token without a leading '-' is fed to the positional
\* option (the null-spelling descriptor met first in the registry), whose
\* list gains it at the end; without such a descriptor the token makes
\* populate return InvalidValue for it.
C5_Positional ==
  [][ (AtProc /\ Head(args) # <<>> /\ Head(args)[1] # "-")
        => /\ args' = Tail(args)
           /\ OthersUnchanged(defOp)
           /\ Positionals(options) = {} <=> defOp = noDefault
           /\ defOp # noDefault
                => /\ defOp \in Positionals(options)
                   /\ \A i \in Positionals(options) : defOp <= i
                   /\ options'[defOp].seen = TRUE
                   /\ ~Refused(options, defOp, Head(args))
                        => /\ r' = allgood
                           /\ pc' = "loop"
                           /\ options'[defOp].v
                                = Append(options[defOp].v,
                                         Element(options[defOp].kind,
                                                 Head(args)))
           /\ Refused(options, defOp, Head(args))
                => /\ r' = errorState("invalid", DefaultList, Head(args))
                   /\ pc' = "exit" ]_vars
  /\ [][ (pc = "exit" /\ r.op = DefaultList)
           => (pc' = "done" /\ r' = r /\ options' = options) ]_vars

\* "abc 4 abc" went, in that order, into the list of the example.
C5_Witness ==
  /\ pc = "done"
  /\ main = ExampleMain
  /\ argv = << <<"a", "b", "c">>, <<"4">>, <<"a", "b", "c">> >>
  /\ options[ByLong(options, Null)].v = argv

\* Every call of proc made so far returned ok.
AllStepsOk == \A k \in 1..Len(trace) : trace[k].r.state = "ok" /\ ~trace[k].fault

\* C6: when the whole queue was consumed, populate applies the default of a
\* descriptor that has one if and only if its seen flag is false.
C6_AsStated ==
  [][ (pc \in {"loop", "exit"} /\ pc' = "done" /\ args = <<>>
         /\ AllStepsOk)
        => \A i \in 1..Len(options) :
             options[i].d # Null
               => /\ ~options[i].seen
                    => options'[i] = setMe(options, i, options[i].d).options[i]
                  /\ options[i].seen => options'[i] = options[i] ]_vars

\* The first text of q the positional consumer turns down (0: none).
FirstRefused(opts, d, q) ==
  IF \E k \in 1..Len(q) : Refused(opts, d, q[k])
    THEN CHOOSE k \in 1..Len(q) :
           /\ Refused(opts, d, q[k])
           /\ \A j \in 1..(k - 1) : ~Refused(opts, d, q[j])
    ELSE 0

\* C7: the token "-" feeds every remaining token, in order and whatever it
\* looks like, to the positional consumer; no other descriptor is touched;
\* the queue is empty afterwards, unless a conversion failed: then the step
\* stops behind the refused token and reports InvalidValue for it.
C7_TakeEverything ==
  [][ (AtProc /\ Head(args) = <<"-">>)
        => LET rest == Tail(args)
               bad  == FirstRefused(options, defOp, rest)
               fed  == IF bad = 0 THEN rest ELSE SubSeq(rest, 1, bad - 1)
           IN /\ OthersUnchanged(defOp)
              /\ args' = IF bad = 0 THEN <<>>
                         ELSE SubSeq(rest, bad + 1, Len(rest))
              /\ r' = IF bad = 0 THEN allgood
                      ELSE errorState("invalid", Null, rest[bad])
              /\ pc' = IF bad = 0 THEN "loop" ELSE "exit"
              /\ (defOp # noDefault /\ IsContainer(options[defOp]))
                   => options'[defOp].v
                        = options[defOp].v
                            \o Elements(options[defOp].kind, fed) ]_vars

\* "- -c --bogus": both tokens behind the "-" are in the list of the example.
C7_Witness ==
  /\ pc = "done"
  /\ main = ExampleMain
  /\ argv = << <<"-">>, <<"-", "c">>,
               <<"-", "-", "b", "o", "g", "u", "s">> >>
  /\ r = allgood
  /\ args = <<>>
  /\ options[ByLong(options, Null)].v = Tail(argv)
  /\ Len(trace) = 1

\* The long (short) spelling of descriptor a matches the text x that follows
\* the "--" (the "-") of a token.
LongMatches(a, x) ==
  /\ a.l # Null
  /\ IsPrefix(a.l, x)
  /\ Len(x) = Len(a.l) \/ x[Len(a.l) + 1] \in {"=", ":"}

ShortMatches(a, x) == a.s # Null /\ IsPrefix(a.s, x)

\* The token begins with '-' or "--" and no registered spelling matches it.
Unmatched(opts, op) ==
  /\ Len(op) >= 2
  /\ op[1] = "-"
  /\ op[2] = "-"
       => \A i \in 1..Len(opts) : ~LongMatches(opts[i], SubSeq(op, 3, Len(op)))
  /\ op[2] # "-"
       => \A i \in 1..Len(opts) : ~ShortMatches(opts[i], SubSeq(op, 2, Len(op)))

\* populate leaves its loop, returns r and touches nothing else.
ReturnsAsIs ==
  /\ pc' = "done"
  /\ r' = r
  /\ options' = options
  /\ args' = args
  /\ trace' = trace

\* C8: a token beginning with '-' or "--" that matches no registered
\* spelling makes populate return UnknownOption with the token as written;
\* nothing is set by that step, and nothing to the right of the token is
\* processed.
C8_UnknownHalts ==
  /\ [][ (AtProc /\ Unmatched(options, Head(args)))
           => /\ r' = errorState("unknown", Head(args), Null)
              /\ pc' = "exit"
              /\ options' = options
              /\ args' = Tail(args) ]_vars
  /\ [][ (pc = "exit" /\ r.state = "unknown") => ReturnsAsIs ]_vars
  /\ [][ pc # "done" ]_vars

\* "--bogus -h": UnknownOption{"--bogus"} is returned and help is not set.
C8_Witness ==
  /\ pc = "done"
  /\ main = FlagMain
  /\ argv = << <<"-", "-", "b", "o", "g", "u", "s">>, <<"-", "h">> >>
  /\ r = errorState("unknown", <<"-", "-", "b", "o", "g", "u", "s">>, Null)
  /\ args = << <<"-", "h">> >>
  /\ options = Registered(main)

\* C9: an option token naming an integer option, followed by a value token
\* that is not numeric, makes populate return InvalidValue with the option
\* token as written as operand and the value token as value.
C9_InvalidInteger ==
  /\ [][ \A a \in 1..Len(options) :
           (AtProc /\ Len(args) >= 2
              /\ Named(options, Head(args)) = a
              /\ Bare(options[a], Head(args))
              /\ options[a].kind \in {"int", "list_int"}
              /\ ~Numeric(args[2]))
             => /\ r' = errorState("invalid", Head(args), args[2])
                /\ pc' = "exit"
                /\ args' = Tail(Tail(args)) ]_vars
  /\ [][ (pc = "exit" /\ r.state = "invalid" /\ r.op # Null
            /\ r.op # DefaultList)
           => ReturnsAsIs ]_vars

\* "-c abc" on the example: InvalidValue{"-c","abc"} is returned.
C9_Witness ==
  /\ pc = "done"
  /\ main = ExampleMain
  /\ argv = << <<"-", "c">>, <<"a", "b", "c">> >>
  /\ r = errorState("invalid", <<"-", "c">>, <<"a", "b", "c">>)

\* C10: when a step returns an error state, populate returns that error
\* state at once, processes no further token, and every variable set by an
\* earlier step still has the value that step gave it.
C10_AsStated ==
  /\ [][ (AtProc /\ pc' = "exit" /\ ~Last(trace').stray)
           => \A i \in 1..Len(options) :
                options[i].seen => options'[i].v = options[i].v ]_vars
  /\ [][ pc = "exit" => ReturnsAsIs ]_vars

\* C11: on every token sequence, the empty one included, whose steps all
\* return ok, populate returns ok and leaves the registry as setDefaults
\* makes it once the last token is consumed; when populate returns another
\* state, setDefaults has not touched the registry.
C11_AsStated ==
  /\ [][ (pc = "loop" /\ pc' = "done" /\ args = <<>> /\ AllStepsOk)
          => /\ r'.state = "ok"
             /\ options' = setDefaults(options) ]_vars
  /\ [][ (pc' = "done" /\ r'.state # "ok") => options' = options ]_vars

\* The descriptors a call of proc set with success: those of its setMe
\* calls, but for the last one when the call returned InvalidValue.
SetWithSuccess(step) ==
  {step.calls[k].a :
     k \in 1..(IF step.r.state = "invalid" THEN Len(step.calls) - 1
                                           ELSE Len(step.calls))}

\* C12: the seen flag of a descriptor becomes true, and the descriptor
\* changes at all, only in a step that set its value with success: a setter
\* call whose conversion fails, made for a token or for a default text,
\* leaves the descriptor and its seen flag as they were.
C12_AsStated ==
  /\ [][ (AtProc /\ ~Last(trace').stray)
          => \A i \in 1..Len(options) :
               options'[i] # options[i]
                 => i \in SetWithSuccess(Last(trace')) ]_vars
  /\ [][ pc' = "done"
          => \A i \in 1..Len(options) :
               options'[i] # options[i]
                 => fromString(options[i].kind, options[i].v,
                               options[i].d).ok ]_vars

\* The texts fromString(bool&, const char*) is documented to accept.
BoolTexts ==
  { <<"1">>, <<"t", "r", "u", "e">>, <<"y", "e", "s">>,
    <<"e", "n", "a", "b", "l", "e">>,
    <<"0">>, <<"f", "a", "l", "s", "e">>, <<"n", "o">>,
    <<"d", "i", "s", "a", "b", "l", "e">> }

\* C13: converting to a boolean a text that is none of the accepted
\* spellings, whatever its case, fails and leaves the bound variable as it
\* was; here the text is the default of a flag that was not seen, applied
\* after a parse of at least one token.
C13_AsStated ==
  [][ (pc' = "done" /\ argv # <<>> /\ r.state = "ok")
        => \A i \in 1..Len(options) :
             (options[i].kind = "bool" /\ ~options[i].seen
                /\ options[i].d # Null /\ Lower(options[i].d) \notin BoolTexts)
               => /\ ~fromString("bool", options[i].v, options[i].d).ok
                  /\ options'[i].v = options[i].v ]_vars

\* C14: a default text the converter rejects, applied to an option that was
\* not seen, does not make populate fail: after a parse of at least one
\* token it returns ok, and the bound variable holds the value it had
\* before the parse.
C14_AsStated ==
  [][ (pc' = "done" /\ argv # <<>> /\ r.state = "ok")
        => /\ r'.state = "ok"
           /\ \A i \in 1..Len(options) :
                (~options[i].seen /\ options[i].d # Null
                   /\ ~fromString(options[i].kind, options[i].v,
                                   options[i].d).ok)
                  => options'[i].v = Before(i) ]_vars

\* The descriptors whose spelling matches the option token op.
Matching(opts, op) ==
  {i \in 1..Len(opts) :
     IF op[2] = "-" THEN LongMatches(opts[i], SubSeq(op, 3, Len(op)))
                    ELSE ShortMatches(opts[i], SubSeq(op, 2, Len(op)))}

\* The option() call descriptor i of the registry was made by.
RegistrationOf(opts, i) == Len(opts) + 1 - i

\* C15: the registry lists the descriptors in the reverse of the order of
\* registration, and an option token that several of them match is given to
\* the one met first in the registry, the most recently registered of them:
\* it alone is set, and the others are as they were.
C15_FirstMatch ==
  /\ [](\A i \in 1..Len(options) :
          /\ options[i].s = main[RegistrationOf(options, i)].s
          /\ options[i].l = main[RegistrationOf(options, i)].l
          /\ options[i].kind = main[RegistrationOf(options, i)].kind)
  /\ [][ (AtProc /\ Len(Head(args)) >= 2 /\ Head(args)[1] = "-"
            /\ Matching(options, Head(args)) # {}
            /\ ~Last(trace').fault)
          => \E a \in Matching(options, Head(args)) :
               /\ \A j \in Matching(options, Head(args)) :
                    RegistrationOf(options, a) >= RegistrationOf(options, j)
               /\ Len(Last(trace').calls) = 1
               /\ Last(trace').calls[1].a = a
               /\ options'[a].seen = TRUE
               /\ OthersUnchanged(a) ]_vars

\* "-c 4" with two options spelt c: the string registered last holds "4",
\* the counter registered first is as it was.
C15_Witness ==
  /\ pc = "loop"
  /\ main = ClashMain
  /\ argv = << <<"-", "c">>, <<"4">> >>
  /\ args = <<>>
  /\ Cardinality(Matching(options, trace[1].op)) = 2
  /\ options[1].l = <<"c", "o", "l", "s">>
  /\ options[1].v = <<"4">>
  /\ options[2] = argObj(main[1])

\* Fragments to try on a descriptor spelt y: the spelling, the spelling
\* followed by delimiters, values and other characters, and texts that are
\* not the spelling.
FragmentsOf(y) ==
  IF y = Null THEN {<<>>, <<"q">>}
  ELSE { y, y \o <<"=">>, y \o <<"=", "4">>, y \o <<":", "=", "4">>,
         y \o <<"x">>, y \o <<"5", "=">>, y \o <<"x", "=", "4">>,
         SubSeq(y, 1, Len(y) - 1), <<"q">> \o y, <<>>, <<"q">> }

\* What is left of fragment x behind the spelling y it begins with.
Behind(y, x) == SubSeq(x, Len(y) + 1, Len(x))

\* What the claim says of isMe for descriptor a and fragment x in long mode.
LongModeAsStated(a, x) ==
  /\ isMe(a, x, 0).me
       => /\ a.l # Null
          /\ IsPrefix(a.l, x)
          /\ x = a.l \/ isDelim(Behind(a.l, x)[1])
  /\ (isMe(a, x, 0).me /\ x # a.l)
       => isMe(a, x, 0).d = Tail(Behind(a.l, x))
  /\ (isMe(a, x, 0).me /\ x = a.l) => isMe(a, x, 0).d = Null

\* What the claim says of isMe for descriptor a and fragment x in short mode.
ShortModeAsStated(a, x) ==
  /\ IsPrefix(a.s, x) => isMe(a, x, 1).me
  /\ (IsPrefix(a.s, x) /\ x = a.s) => isMe(a, x, 1).d = Null
  /\ (IsPrefix(a.s, x) /\ x # a.s)
       => isMe(a, x, 1).d
            = IF isDelim(Behind(a.s, x)[1]) THEN Tail(Behind(a.s, x))
                                            ELSE Behind(a.s, x)

\* C16 (as stated): in long mode a fragment matches only when it is the
\* long spelling, or the long spelling and a delimiter, the embedded value
\* being all that follows that delimiter; in short mode every fragment that
\* begins with the short spelling matches, the embedded value being what
\* follows the spelling but for one leading delimiter.
C16_AsStated ==
  pc = "main" =>
    \A i \in 1..Len(options) :
      \A x \in FragmentsOf(options[i].s) \cup FragmentsOf(options[i].l) :
        /\ LongModeAsStated(options[i], x)
        /\ options[i].s # Null => ShortModeAsStated(options[i], x)

\* C16 (amended): as stated, the short mode for short spellings of at most
\* max_string_length characters.
C16_Matcher ==
  pc = "main" =>
    \A i \in 1..Len(options) :
      \A x \in FragmentsOf(options[i].s) \cup FragmentsOf(options[i].l) :
        /\ LongModeAsStated(options[i], x)
        /\ (options[i].s # Null /\ Len(options[i].s) <= max_string_length)
             => ShortModeAsStated(options[i], x)

\* "--count=4" matched count in long mode with the embedded value 4, and
\* "-w5" matched w in short mode with the embedded value 5.
C16_Witness ==
  /\ pc = "done"
  /\ main = ExampleMain
  /\ argv = << <<"-", "-", "c", "o", "u", "n", "t", "=", "4">>,
               <<"-", "w", "5">> >>
  /\ trace[1].calls = <<[a |-> 3, s |-> <<"4">>]>>
  /\ trace[2].calls = <<[a |-> 2, s |-> <<"5">>]>>
  /\ isMe(options[3], <<"c", "o", "u", "n", "t", "x">>, 0).me = FALSE

\* The embedded value of the option token op, which names descriptor a and
\* is not its bare spelling, and the token without it.
Fragment(a, op) ==
  IF op[2] = "-"
    THEN Tail(Behind(a.l, SubSeq(op, 3, Len(op))))
    ELSE IF isDelim(Behind(a.s, SubSeq(op, 2, Len(op)))[1])
           THEN Tail(Behind(a.s, SubSeq(op, 2, Len(op))))
           ELSE Behind(a.s, SubSeq(op, 2, Len(op)))

BareToken(a, op) ==
  IF op[2] = "-" THEN <<"-", "-">> \o a.l ELSE <<"-">> \o a.s

\* C17: an option token with an embedded value is processed as the bare
\* option token followed by that value as a token of its own would be: an
\* option that takes a value is set from the fragment in the same step; a
\* flag is set from "true" and the fragment is left at the front of the
\* queue, before the tokens that followed, for the next step.
C17_Fragment ==
  [][ \A a \in 1..Len(options) :
        (AtProc /\ Named(options, Head(args)) = a
           /\ ~Bare(options[a], Head(args)))
          => /\ options[a].kind # "bool"
                  => /\ Last(trace').calls
                          = <<[a |-> a,
                               s |-> Fragment(options[a], Head(args))]>>
                     /\ args' = Tail(args)
                     /\ ~Last(trace').stray
             /\ options[a].kind = "bool"
                  => /\ Last(trace').calls
                          = <<[a |-> a, s |-> <<"t", "r", "u", "e">>]>>
                     /\ args' = <<Fragment(options[a], Head(args))>>
                                  \o Tail(args)
                     /\ r' = allgood
             /\ \A ef \in EmptyFront :
                  LET p == proc(options,
                                <<BareToken(options[a], Head(args)),
                                  Fragment(options[a], Head(args))>>
                                  \o Tail(args),
                                defOp, ef)
                  IN /\ options' = p.options
                     /\ args' = p.l
                     /\ r'.state = p.r.state
                     /\ r'.val = p.r.val
                     /\ ~p.stray ]_vars

\* "--count=4 -hx": count was set from the fragment 4 in the step of its
\* token; help was set from "true" and the fragment x went to the next step,
\* which took it for a positional token.
C17_Witness ==
  /\ pc = "exit"
  /\ main = FlagMain
  /\ argv = << <<"-", "-", "c", "o", "u", "n", "t", "=", "4">>,
               <<"-", "h", "x">> >>
  /\ Len(trace) = 3
  /\ trace[1].calls = <<[a |-> 1, s |-> <<"4">>]>>
  /\ trace[2].calls = <<[a |-> 2, s |-> <<"t", "r", "u", "e">>]>>
  /\ trace[3].op = <<"x">>
  /\ r = errorState("invalid", DefaultList, <<"x">>)

\* C18: no call of proc made by populate reads or pops the front of an
\* empty list: an option that takes a value, met as the last token and
\* without an embedded value, takes no value from the exhausted list.
C18_AsStated ==
  \A k \in 1..Len(trace) : ~trace[k].stray /\ ~trace[k].fault

\* The number of tokens of the queue plus the number of their characters.
RECURSIVE Measure(_)
Measure(q) ==
  IF q = <<>> THEN 0 ELSE 1 + Len(Head(q)) + Measure(Tail(q))

\* Every option of the token sequence av is followed by the value tokens it
\* needs: no call of proc comes to read the front of the empty list.
ValuesSupplied(opts, av) ==
  ~populate(opts, av, allgood, [fault |-> TRUE, val |-> Null]).fault

\* C19: on a token sequence in which every option has the value tokens it
\* needs, every step makes the number of tokens plus characters of the queue
\* smaller, a fragment pushed back being a shorter suffix of the token
\* popped; so populate makes at most as many steps as the tokens and
\* characters it was given, and then, or after a step that returned an
\* error, it returns.
C19_Terminates ==
  /\ [][ (AtProc /\ ValuesSupplied(Registered(main), argv))
          => /\ Measure(args') < Measure(args)
             /\ Len(args') <= Len(args)
             /\ Len(args') = Len(args)
                  => /\ Tail(args') = Tail(args)
                     /\ IsSuffix(Head(args'), Head(args))
                     /\ Len(Head(args')) < Len(Head(args))
             /\ pc' \in {"loop", "exit"} ]_vars
  /\ []((pc # "main" /\ ValuesSupplied(Registered(main), argv))
          => /\ Len(trace) + Measure(args) <= Measure(argv)
             /\ pc # "fault")
  /\ [][ (pc = "exit" \/ (pc = "loop" /\ args = <<>>)) => pc' = "done" ]_vars
  /\ [][ pc # "done" ]_vars

\* "-hx 4" ran to its return: the step of -hx left x and 4 in the queue,
\* as many tokens as before and fewer characters.
C19_Witness ==
  /\ pc = "done"
  /\ main = FlagMain
  /\ argv = << <<"-", "h", "x">>, <<"4">> >>
  /\ ValuesSupplied(Registered(main), argv)
  /\ Len(trace) = 2
  /\ trace[2].op = <<"x">>
  /\ Measure(args) = 2
  /\ Measure(argv) = 6

====
